---- MODULE Spec2Model ----
(***************************************************************************)
(* A model of parse-i2p-eepsite-logs.py: the line parser parse_log_line,   *)
(* the file collector parse_log_files, the aggregator generate_statistics  *)
(* and the control flow of main.  Text is kept as TLA+ strings, on which   *)
(* TLC evaluates Len, \o and SubSeq, so that every split, suffix test and  *)
(* date conversion is computed character by character as Python does.      *)
(***************************************************************************)
EXTENDS Integers, Sequences, FiniteSets, TLC

VARIABLES
    pc,           \* the position of the run
    line,         \* SpecParse: the argument of parse_log_line
    parsed,       \* SpecParse: what parse_log_line returned
    directory,    \* the directory tree the user names, in os.walk order
    clock,        \* index into Clocks: what datetime.now() returns when read
    fileIdx,      \* parse_log_files: the file the walk is at
    lineIdx,      \* parse_log_files: lines of that file consumed so far
    log_entries,  \* the list parse_log_files builds / generate_statistics reads
    statistics,   \* what generate_statistics returned
    report,       \* the content of report.html
    output,       \* the messages printed to standard output, in order
    previous      \* the statistics of the run before this one

vars == <<pc, line, parsed, directory, clock, fileIdx, lineIdx, log_entries,
          statistics, report, output, previous>>

\* Python's None, for a value that is otherwise a record.
None == [none |-> TRUE]

----------------------------------------------------------------------------
(* Text: the str methods the program uses.                                 *)

CharAt(s, i) == SubSeq(s, i, i)

Digits == <<"0", "1", "2", "3", "4", "5", "6", "7", "8", "9">>

IsDigit(c) == \E i \in 1..10 : Digits[i] = c

DigitVal(c) == (CHOOSE i \in 1..10 : Digits[i] = c) - 1

\* int(s) for a string of decimal digits.
RECURSIVE ToInt(_)
ToInt(s) ==
    IF Len(s) = 0 THEN 0
    ELSE 10 * ToInt(SubSeq(s, 1, Len(s) - 1)) + DigitVal(CharAt(s, Len(s)))

UpperCase == <<"A", "B", "C", "D", "E", "F", "G", "H", "I", "J", "K", "L", "M",
               "N", "O", "P", "Q", "R", "S", "T", "U", "V", "W", "X", "Y", "Z">>

LowerCase == <<"a", "b", "c", "d", "e", "f", "g", "h", "i", "j", "k", "l", "m",
               "n", "o", "p", "q", "r", "s", "t", "u", "v", "w", "x", "y", "z">>

LowerChar(c) ==
    IF \E i \in 1..26 : UpperCase[i] = c
    THEN LowerCase[CHOOSE i \in 1..26 : UpperCase[i] = c]
    ELSE c

\* str.lower(), and the case folding of re.IGNORECASE.
RECURSIVE Lower(_)
Lower(s) ==
    IF Len(s) = 0 THEN s
    ELSE LowerChar(CharAt(s, 1)) \o Lower(SubSeq(s, 2, Len(s)))

\* str.find(sep, i): the least position >= i at which sep occurs in s, or 0.
Find(s, sep, i) ==
    LET hits == {j \in i..(Len(s) - Len(sep) + 1) : SubSeq(s, j, j + Len(sep) - 1) = sep}
    IN  IF hits = {} THEN 0 ELSE CHOOSE j \in hits : \A k \in hits : j <= k

\* str.split(sep): the pieces of s between the occurrences of sep, scanned
\* left to right without overlap; a string without sep is its only piece.
RECURSIVE Split(_, _)
Split(s, sep) ==
    LET j == Find(s, sep, 1)
    IN  IF j = 0 THEN <<s>>
        ELSE <<SubSeq(s, 1, j - 1)>> \o Split(SubSeq(s, j + Len(sep), Len(s)), sep)

\* str.endswith(suffix)
EndsWith(s, suffix) ==
    /\ Len(s) >= Len(suffix)
    /\ SubSeq(s, Len(s) - Len(suffix) + 1, Len(s)) = suffix

\* sub in s
Contains(s, sub) == Find(s, sub, 1) # 0

\* The whitespace str.strip() removes (the ASCII part of it).
IsSpace(c) == c \in {" ", "\t", "\n", "\r"}

RECURSIVE LStrip(_)
LStrip(s) ==
    IF Len(s) > 0 /\ IsSpace(CharAt(s, 1)) THEN LStrip(SubSeq(s, 2, Len(s))) ELSE s

RECURSIVE RStrip(_)
RStrip(s) ==
    IF Len(s) > 0 /\ IsSpace(CharAt(s, Len(s)))
    THEN RStrip(SubSeq(s, 1, Len(s) - 1)) ELSE s

\* str.strip()
Strip(s) == RStrip(LStrip(s))

\* The order of str values (by code point) on the characters month keys are
\* made of: "-" sorts before every digit.
CharRank(c) == IF c = "-" THEN 0 ELSE DigitVal(c) + 1

RECURSIVE StrLess(_, _)
StrLess(a, b) ==
    IF Len(b) = 0 THEN FALSE
    ELSE IF Len(a) = 0 THEN TRUE
    ELSE IF CharAt(a, 1) = CharAt(b, 1)
         THEN StrLess(SubSeq(a, 2, Len(a)), SubSeq(b, 2, Len(b)))
         ELSE CharRank(CharAt(a, 1)) < CharRank(CharAt(b, 1))

----------------------------------------------------------------------------
(* datetime: a record of the fields of datetime.datetime.                  *)

IsLeap(y) == y % 4 = 0 /\ (y % 100 # 0 \/ y % 400 = 0)

DaysInMonth(y, m) ==
    IF m = 2 THEN (IF IsLeap(y) THEN 29 ELSE 28)
    ELSE IF m \in {4, 6, 9, 11} THEN 30 ELSE 31

\* The days before January 1st of year y.
DaysBeforeYear(y) ==
    LET p == y - 1 IN p * 365 + p \div 4 - p \div 100 + p \div 400

RECURSIVE DaysBeforeMonth(_, _)
DaysBeforeMonth(y, m) ==
    IF m = 1 THEN 0 ELSE DaysBeforeMonth(y, m - 1) + DaysInMonth(y, m - 1)

\* date.toordinal(): January 1st of year 1 is day 1.
ToOrdinal(y, m, d) == DaysBeforeYear(y) + DaysBeforeMonth(y, m) + d

\* date.fromordinal(n), as <<year, month, day>>.
FromOrdinal(n) ==
    LET guess == (n * 400) \div 146097 + 1
        y == CHOOSE yy \in (guess - 1)..(guess + 1) :
                 DaysBeforeYear(yy) < n /\ n <= DaysBeforeYear(yy + 1)
        m == CHOOSE mm \in 1..12 :
                 /\ DaysBeforeMonth(y, mm) < n - DaysBeforeYear(y)
                 /\ n - DaysBeforeYear(y) <= DaysBeforeMonth(y, mm) + DaysInMonth(y, mm)
    IN  <<y, m, n - DaysBeforeYear(y) - DaysBeforeMonth(y, m)>>

DateTime(y, mo, d, h, mi, s, us) ==
    [year |-> y, month |-> mo, day |-> d, hour |-> h, minute |-> mi,
     second |-> s, microsecond |-> us]

\* dt - timedelta(days=n): the calendar date moves, the time of day stays.
MinusDays(dt, n) ==
    LET ymd == FromOrdinal(ToOrdinal(dt.year, dt.month, dt.day) - n)
    IN  [dt EXCEPT !.year = ymd[1], !.month = ymd[2], !.day = ymd[3]]

\* a > b on datetimes: the fields compared in order.
RECURSIVE TupleGreater(_, _)
TupleGreater(a, b) ==
    IF Len(a) = 0 THEN FALSE
    ELSE IF Head(a) # Head(b) THEN Head(a) > Head(b)
    ELSE TupleGreater(Tail(a), Tail(b))

DateFields(dt) ==
    <<dt.year, dt.month, dt.day, dt.hour, dt.minute, dt.second, dt.microsecond>>

DateGreater(a, b) == TupleGreater(DateFields(a), DateFields(b))

\* Zero-padded decimal of width w, as strftime's %m, %d, %H, %M, %S (w = 2).
RECURSIVE Pad(_, _)
Pad(n, w) ==
    IF w = 0 THEN "" ELSE Pad(n \div 10, w - 1) \o Digits[(n % 10) + 1]

\* Decimal without padding: glibc's %Y, which does not pad a year below 1000.
RECURSIVE Decimal(_)
Decimal(n) ==
    IF n < 10 THEN Digits[n + 1] ELSE Decimal(n \div 10) \o Digits[(n % 10) + 1]

\* dt.strftime("%Y-%m")
MonthKey(dt) == Decimal(dt.year) \o "-" \o Pad(dt.month, 2)

MonthAbbr == <<"jan", "feb", "mar", "apr", "may", "jun",
               "jul", "aug", "sep", "oct", "nov", "dec">>

MonthName == <<"Jan", "Feb", "Mar", "Apr", "May", "Jun",
               "Jul", "Aug", "Sep", "Oct", "Nov", "Dec">>

\* dt.strftime("%d/%b/%Y %H:%M:%S")
LastUpdate(dt) ==
    Pad(dt.day, 2) \o "/" \o MonthName[dt.month] \o "/" \o Decimal(dt.year) \o " "
        \o Pad(dt.hour, 2) \o ":" \o Pad(dt.minute, 2) \o ":" \o Pad(dt.second, 2)

AllDigits(s) == \A i \in 1..Len(s) : IsDigit(CharAt(s, i))

\* The regular expressions _strptime builds for the directives, each matched
\* against a whole field: the fields are delimited by "/" and ":" literals
\* that no directive can match, and data left over is a ValueError.
MatchesDay(s) ==        \* %d: 3[0-1]|[1-2]\d|0[1-9]|[1-9]| [1-9]
    \/ Len(s) = 1 /\ IsDigit(s) /\ s # "0"
    \/ /\ Len(s) = 2
       /\ IsDigit(CharAt(s, 2))
       /\ \/ CharAt(s, 1) = "3" /\ CharAt(s, 2) \in {"0", "1"}
          \/ CharAt(s, 1) \in {"1", "2"}
          \/ CharAt(s, 1) \in {"0", " "} /\ CharAt(s, 2) # "0"

MatchesYear(s) == Len(s) = 4 /\ AllDigits(s)        \* %Y: \d\d\d\d

MatchesHour(s) ==       \* %H: 2[0-3]|[0-1]\d|\d
    \/ Len(s) = 1 /\ IsDigit(s)
    \/ /\ Len(s) = 2
       /\ IsDigit(CharAt(s, 2))
       /\ \/ CharAt(s, 1) = "2" /\ CharAt(s, 2) \in {"0", "1", "2", "3"}
          \/ CharAt(s, 1) \in {"0", "1"}

MatchesMinute(s) ==     \* %M: [0-5]\d|\d
    \/ Len(s) = 1 /\ IsDigit(s)
    \/ Len(s) = 2 /\ IsDigit(CharAt(s, 2))
          /\ CharAt(s, 1) \in {"0", "1", "2", "3", "4", "5"}

MatchesSecond(s) ==     \* %S: 6[0-1]|[0-5]\d|\d
    \/ MatchesMinute(s)
    \/ s \in {"60", "61"}

MatchesMonth(s) == \E i \in 1..12 : MonthAbbr[i] = Lower(s)      \* %b

\* The number a %d field stands for (its leading blank is not a digit).
DayVal(s) == IF CharAt(s, 1) = " " THEN ToInt(SubSeq(s, 2, Len(s))) ELSE ToInt(s)

\* datetime.strptime(date, "%d/%b/%Y:%H:%M:%S"): the datetime, or None where
\* Python raises ValueError (no match, data left over, or a field out of the
\* range datetime accepts).
Strptime(date) ==
    LET bySlash == Split(date, "/")
        byColon == Split(bySlash[3], ":")
    IN  IF Len(bySlash) # 3 THEN None
        ELSE IF Len(byColon) # 4 THEN None
        ELSE IF ~ /\ MatchesDay(bySlash[1])
                  /\ MatchesMonth(bySlash[2])
                  /\ MatchesYear(byColon[1])
                  /\ MatchesHour(byColon[2])
                  /\ MatchesMinute(byColon[3])
                  /\ MatchesSecond(byColon[4])
             THEN None
        ELSE LET y  == ToInt(byColon[1])
                 mo == CHOOSE i \in 1..12 : MonthAbbr[i] = Lower(bySlash[2])
                 d  == DayVal(bySlash[1])
                 s  == ToInt(byColon[4])
             IN  IF y < 1 \/ d > DaysInMonth(y, mo) \/ s > 59 THEN None
                 ELSE DateTime(y, mo, d, ToInt(byColon[2]), ToInt(byColon[3]), s, 0)

----------------------------------------------------------------------------
(* parse_log_line                                                          *)

\* The separator between the router and the bracketed date.
RouterSep == " -  -  ["

\* parse_log_line(line): the entry, or None where an IndexError or a
\* ValueError is caught.  Every split is of the whole line.
parse_log_line(l) ==
    LET byBracket == Split(l, "[")
        byQuote == Split(l, "\"")
        byQuoteSpace == Split(l, "\" ")
    IN  IF Len(byBracket) < 2 \/ Len(byQuote) < 2 \/ Len(byQuoteSpace) < 2
        THEN None
        ELSE LET date == Strptime(Split(byBracket[2], " +")[1])
             IN  IF date = None THEN None
                 ELSE [router |-> Split(l, RouterSep)[1],
                       date |-> date,
                       request |-> byQuote[2],
                       status_code |-> Split(byQuoteSpace[2], " -")[1]]

----------------------------------------------------------------------------
(* SpecParse: parse_log_line applied to one line.  The lines are put        *)
(* together from parts, so that each anchor of the format is present,      *)
(* absent or displaced in some line.                                       *)

Routers == {"R1", "127.0.0.1", "a[b", "a +b", "q\"r", ""}

Separators == {RouterSep, " - - [", " [", " "}

DateTexts == {"01/Jan/2024:10:00:00", "1/jan/2024:1:2:3", "29/Feb/2024:23:59:59",
              "31/Feb/2024:10:00:00", "01/Jan/2024:10:00:60", "not-a-date"}

Zones == {" +0000] ", "] "}

QuotedRequests == {"\"GET /x.html\"", "\"GET /a\"b\"", "\" GET /x\"", "\"\"",
                   "\"GET /x.html", "GET /x.html"}

Tails == {" 200 -", " 200 - 1234 \"-\"", " 200", ""}

Lines ==
    { r \o sep \o d \o z \o q \o t :
        r \in Routers, sep \in Separators, d \in DateTexts, z \in Zones,
        q \in QuotedRequests, t \in Tails }
    \cup {"not-a-log-line", "not a log line", ""}

Idle ==
    /\ directory = [exists |-> FALSE, files |-> <<>>]
    /\ clock = 1
    /\ fileIdx = 0
    /\ lineIdx = 0
    /\ log_entries = <<>>
    /\ statistics = None
    /\ report = None
    /\ output = <<>>
    /\ previous = None

InitParse ==
    /\ pc = "start"
    /\ line \in Lines
    /\ parsed = None
    /\ Idle

ParseLine ==
    /\ pc = "start"
    /\ parsed' = parse_log_line(line)
    /\ pc' = "parsed"
    /\ UNCHANGED <<line, directory, clock, fileIdx, lineIdx, log_entries,
                   statistics, report, output, previous>>

NextParse == ParseLine

SpecParse == InitParse /\ [][NextParse]_vars

----------------------------------------------------------------------------
(* collections.Counter and Counter.most_common                             *)

\* The sequence f with every element evaluated once.
Listed(f) == SubSeq(f, 1, Len(f))

\* Counter(keys), and the defaultdict(int) filled by d[key] += 1: its items,
\* <<key, count>> pairs in the order in which the keys were first counted
\* (a dict keeps insertion order), each key with its number of occurrences.
CounterOf(keys) ==
    LET n == Len(keys)
        IsFirst(i) == \A j \in 1..(i - 1) : keys[j] # keys[i]
        firsts == SelectSeq([i \in 1..n |-> i], IsFirst)
    IN  Listed([k \in 1..Len(firsts) |->
                  <<keys[firsts[k]],
                    Cardinality({j \in 1..n : keys[j] = keys[firsts[k]]})>>])

\* The variant of SortByCount that puts, among items of equal count, the
\* one counted last first.
SortByCountLatestFirst(items) ==
    LET n == Len(items)
        Place(i) == 1 + Cardinality({j \in 1..n : items[j][2] > items[i][2]})
                      + Cardinality({j \in (i + 1)..n : items[j][2] = items[i][2]})
    IN  Listed([p \in 1..n |-> items[CHOOSE i \in 1..n : Place(i) = p]])

\* The items sorted by count, largest first; items of equal count keep
\* their order (sorted(reverse=True) and heapq.nlargest are both stable).
SortByCount(items) ==
    LET n == Len(items)
        Place(i) == 1 + Cardinality({j \in 1..n : items[j][2] > items[i][2]})
                      + Cardinality({j \in 1..(i - 1) : items[j][2] = items[i][2]})
    IN  Listed([p \in 1..n |-> items[CHOOSE i \in 1..n : Place(i) = p]])

Take(seq, n) == SubSeq(seq, 1, IF Len(seq) < n THEN Len(seq) ELSE n)

\* counter.most_common(n) = heapq.nlargest(n, counter.items(), key=count)
MostCommon(counter, n) == Take(SortByCount(counter), n)

\* sorted(d.items()): keys are distinct, so the pairs are ordered by key.
SortByKey(items) ==
    LET n == Len(items)
        Place(i) == 1 + Cardinality({j \in 1..n : StrLess(items[j][1], items[i][1])})
    IN  Listed([p \in 1..n |-> items[CHOOSE i \in 1..n : Place(i) = p]])

RECURSIVE SumCounts(_)
SumCounts(items) ==
    IF Len(items) = 0 THEN 0
    ELSE SumCounts(SubSeq(items, 1, Len(items) - 1)) + items[Len(items)][2]

RECURSIVE GCD(_, _)
GCD(a, b) == IF b = 0 THEN a ELSE GCD(b, a % b)

\* a / b, kept exactly as a fraction in lowest terms.
Quotient(a, b) ==
    LET g == GCD(a, b) IN [num |-> a \div g, den |-> b \div g]

Zero == [num |-> 0, den |-> 1]

----------------------------------------------------------------------------
(* generate_statistics                                                     *)

TopN == 50

Loopback == "127.0.0.1"

ignored_requests == {"GET /", "GET /styles.css", "GET /favicon.png", "HEAD /"}

IgnoredSuffixes == {".png", ".ico", ".css"}

\* The variant of IsIgnoredRequest that forgets the suffixes.
IsIgnoredLiteral(request) == request \in ignored_requests

\* The requests the page count leaves out.
IsIgnoredRequest(request) ==
    \/ \E suffix \in IgnoredSuffixes : EndsWith(request, suffix)
    \/ request \in ignored_requests

\* timedelta(days=56 * 30)
WindowDays == 56 * 30

\* The variant of IsRecent that compares with >=.
IsRecentOrEqual(date, fifty_six_months_ago) ==
    date = fifty_six_months_ago \/ DateGreater(date, fifty_six_months_ago)

\* entry['date'] > fifty_six_months_ago
IsRecent(date, fifty_six_months_ago) == DateGreater(date, fifty_six_months_ago)

\* The variant of AveragePerMonth that divides by the 56 months of the
\* window instead of the months that hold entries.
AverageOverWindow(monthly_requests) == Quotient(SumCounts(monthly_requests), 56)

\* sum(monthly_requests.values()) / total_months if total_months > 0 else 0
AveragePerMonth(monthly_requests) ==
    IF Len(monthly_requests) > 0
    THEN Quotient(SumCounts(monthly_requests), Len(monthly_requests))
    ELSE Zero

\* popular_hour when the list of hours is empty.
NoHour == -1

\* Counter(hours).most_common(1)[0][0] if hours else None
PopularHour(hours) ==
    IF Len(hours) > 0 THEN MostCommon(CounterOf(hours), 1)[1][1] ELSE NoHour

\* The comprehensions over the entries.
RoutersOf(entries) == Listed([i \in 1..Len(entries) |-> entries[i].router])
RequestsOf(entries) == Listed([i \in 1..Len(entries) |-> entries[i].request])
HoursOf(entries) == Listed([i \in 1..Len(entries) |-> entries[i].date.hour])
MonthsOf(entries) == Listed([i \in 1..Len(entries) |-> MonthKey(entries[i].date)])

\* The variant of NotLoopback that lets every router through.
AnyRouter(entry) == TRUE

\* if entry['router'] != '127.0.0.1'
NotLoopback(entry) == entry.router # Loopback

\* ".html" in entry['request']
IsHtml(entry) == Contains(entry.request, ".html")

\* not (request.endswith(('.png', '.ico', '.css')) or request in ignored_requests)
IsPage(entry) == ~IsIgnoredRequest(entry.request)

\* The variant of generate_statistics that counts the .html requests of the
\* entries inside the window only.
generate_statistics_recent_html(entries, current_date) ==
    LET ago == MinusDays(current_date, WindowDays)
        Recent(entry) == IsRecent(entry.date, ago)
        monthly_requests == CounterOf(MonthsOf(SelectSeq(entries, Recent)))
    IN  [top_50_routers |-> MostCommon(CounterOf(RoutersOf(SelectSeq(entries, NotLoopback))), TopN),
         total_html_requests |-> Len(SelectSeq(SelectSeq(entries, Recent), IsHtml)),
         top_50_pages |-> MostCommon(CounterOf(RequestsOf(SelectSeq(entries, IsPage))), TopN),
         average_page_loads_per_month |-> AveragePerMonth(monthly_requests),
         monthly_requests |-> SortByKey(monthly_requests),
         most_popular_time |-> PopularHour(HoursOf(entries)),
         last_update |-> LastUpdate(current_date)]

\* generate_statistics(log_entries), with the value datetime.now() returns
\* as its second argument.
generate_statistics(entries, current_date) ==
    LET fifty_six_months_ago == MinusDays(current_date, WindowDays)
        Recent(entry) == IsRecent(entry.date, fifty_six_months_ago)
        monthly_requests == CounterOf(MonthsOf(SelectSeq(entries, Recent)))
    IN  [top_50_routers |-> MostCommon(CounterOf(RoutersOf(SelectSeq(entries, NotLoopback))), TopN),
         total_html_requests |-> Len(SelectSeq(entries, IsHtml)),
         top_50_pages |-> MostCommon(CounterOf(RequestsOf(SelectSeq(entries, IsPage))), TopN),
         average_page_loads_per_month |-> AveragePerMonth(monthly_requests),
         monthly_requests |-> SortByKey(monthly_requests),
         most_popular_time |-> PopularHour(HoursOf(entries)),
         last_update |-> LastUpdate(current_date)]

\* The times at which a run may read datetime.now(), in increasing order:
\* a whole second, half a second later, and one second later.
Clocks == <<DateTime(2024, 6, 15, 12, 0, 0, 0),
            DateTime(2024, 6, 15, 12, 0, 0, 500000),
            DateTime(2024, 6, 15, 12, 0, 1, 0)>>

\* main lines 213-215: statistics = generate_statistics(log_entries)
GenerateStatistics ==
    /\ pc = "aggregate"
    /\ statistics' = generate_statistics(log_entries, Clocks[clock])
    /\ pc' = "render"
    /\ UNCHANGED <<line, parsed, directory, clock, fileIdx, lineIdx, log_entries,
                   report, output, previous>>

----------------------------------------------------------------------------
(* SpecStats: generate_statistics applied to one list of entries at one    *)
(* reading of the clock.                                                   *)

Entry(router, date, request) ==
    [router |-> router, date |-> date, request |-> request, status_code |-> "200"]

\* Dates around Clocks[1] minus 56 * 30 days, which is 2019-11-09 12:00:00.
JustBefore == DateTime(2019, 11, 9, 11, 59, 59, 0)
OnBoundary == DateTime(2019, 11, 9, 12, 0, 0, 0)
JustAfter  == DateTime(2019, 11, 9, 12, 0, 1, 0)
InJanuary  == DateTime(2024, 1, 5, 10, 15, 0, 0)
InFebruary == DateTime(2024, 2, 10, 13, 30, 0, 0)
LongAgo    == DateTime(2015, 3, 1, 13, 0, 0, 0)

EntryCatalogue ==
    { Entry("R1", InJanuary, "GET /index.html"),
      Entry("R2", InFebruary, "GET /about.html"),
      Entry(Loopback, OnBoundary, "GET /favicon.png"),
      Entry("R1", JustAfter, "GET /"),
      Entry("R2", JustBefore, "GET /logo.ico"),
      Entry("R3", LongAgo, "GET /styles.css"),
      Entry(Loopback, LongAgo, "GET /index.html"),
      Entry("R3", InJanuary, "HEAD /"),
      Entry("R3", InFebruary, "GET /theme.css?v=2") }

MaxEntries == 3

SmallInputs == UNION { [1..k -> EntryCatalogue] : k \in 0..MaxEntries }

Repeat(entry, n) == [i \in 1..n |-> entry]

\* The i-th of many routers, each asking for a page of its own.
BulkEntry(i) ==
    Entry("r" \o Decimal(i), InJanuary, "GET /p" \o Decimal(i) \o ".html")

\* n distinct routers and pages, the last of them seen k more times, and
\* requests from the loopback address that outnumber them all.
Bulk(n, k) ==
    [i \in 1..n |-> BulkEntry(i)] \o Repeat(BulkEntry(n), k)
        \o Repeat(Entry(Loopback, InJanuary, "GET /favicon.png"), 3)

BulkInputs == { Bulk(n, k) : n \in (TopN - 1)..(TopN + 1), k \in 0..1 }

RepeatInputs ==
    { Repeat(Entry("R1", InJanuary, "GET /index.html"), 10)
          \o Repeat(Entry("R2", InFebruary, "GET /about.html"), 20),
      Repeat(Entry("R2", InFebruary, "GET /about.html"), 5)
          \o Repeat(Entry("R1", InJanuary, "GET /index.html"), 10)
          \o Repeat(Entry(Loopback, LongAgo, "GET /favicon.png"), 12) }

InitStats ==
    /\ pc = "aggregate"
    /\ log_entries \in SmallInputs \cup BulkInputs \cup RepeatInputs
    /\ clock \in 1..Len(Clocks)
    /\ line = ""
    /\ parsed = None
    /\ directory = [exists |-> FALSE, files |-> <<>>]
    /\ fileIdx = 0
    /\ lineIdx = 0
    /\ statistics = None
    /\ report = None
    /\ output = <<>>
    /\ previous = None

NextStats == GenerateStatistics

SpecStats == InitStats /\ [][NextStats]_vars

----------------------------------------------------------------------------
(* Spec: main, run on a directory that stays as it is, once and again at   *)
(* later times.                                                            *)

\* Where "$" matches in a name: at its end, and before a newline that ends it.
PatternEnds(name) ==
    {Len(name)} \cup
        (IF EndsWith(name, "\n") THEN {Len(name) - 1} ELSE {})

\* The variant of IsLogFile without re.IGNORECASE.
IsLogFileCaseSensitive(name) ==
    \E e \in PatternEnds(name) :
        /\ e >= 4
        /\ SubSeq(name, e - 3, e) = ".log"
        /\ ~Contains(SubSeq(name, 1, e - 4), "\n")

\* re.compile(r'.*\.log$', re.IGNORECASE).match(file): any characters but
\* newlines, then ".log" in any case, then the end of the name.
IsLogFile(name) ==
    \E e \in PatternEnds(name) :
        /\ e >= 4
        /\ Lower(SubSeq(name, e - 3, e)) = ".log"
        /\ ~Contains(SubSeq(name, 1, e - 4), "\n")

\* A file of the tree: its name, whether open() and the reading of it
\* succeed (they raise OSError or UnicodeDecodeError otherwise), its lines.
File(name, readable, lines) == [name |-> name, readable |-> readable, lines |-> lines]

FileNames == {"a.log", "B.LOG", "notes.txt", "d.log\n", "x\ny.log"}

\* A file that open() refuses: a dangling link, a file of another user.
UnreadableName == "c.log"

RecentLine == "  R2 -  -  [05/Jan/2024:10:15:00 +0000] \"GET /y.html\" 200 - "

BoundaryLine == "R1 -  -  [09/Nov/2019:12:00:01 +0000] \"GET /x.html\" 200 -"

MalformedLine == "not-a-log-line"

FileLines == {RecentLine, BoundaryLine, MalformedLine}

\* The files and lines of a tree in walk order, as one list of items.
Items ==
    [kind : {"file"}, text : FileNames \cup {UnreadableName}]
        \cup [kind : {"line"}, text : FileLines]

MaxItems == 4

Listings ==
    { l \in UNION { [1..k -> Items] : k \in 0..MaxItems } :
        Len(l) > 0 => l[1].kind = "file" }

\* The files of a listing: each file item with the line items that follow it.
FilesOf(listing) ==
    LET n == Len(listing)
        IsFileItem(i) == listing[i].kind = "file"
        starts == SelectSeq([i \in 1..n |-> i], IsFileItem)
        EndOf(k) == IF k = Len(starts) THEN n ELSE starts[k + 1] - 1
        TextOf(item) == item.text
        LinesOf(k) == LET part == SubSeq(listing, starts[k] + 1, EndOf(k))
                      IN  Listed([i \in 1..Len(part) |-> part[i].text])
    IN  Listed([k \in 1..Len(starts) |->
                  File(listing[starts[k]].text,
                       listing[starts[k]].text # UnreadableName,
                       LinesOf(k))])

Directories ==
    { [exists |-> TRUE, files |-> FilesOf(l)] : l \in Listings }
        \cup { [exists |-> FALSE, files |-> <<>>] }

Init ==
    /\ pc = "start"
    /\ directory \in Directories
    /\ clock \in 1..Len(Clocks)
    /\ line = ""
    /\ parsed = None
    /\ fileIdx = 0
    /\ lineIdx = 0
    /\ log_entries = <<>>
    /\ statistics = None
    /\ report = None
    /\ output = <<>>
    /\ previous = None

\* main, lines 198-211: the directory is checked and parse_log_files entered.
CheckDirectory ==
    /\ pc = "start"
    /\ IF directory.exists
       THEN /\ output' = Append(output, "Parsing log files")
            /\ pc' = "walk"
            /\ fileIdx' = 1
       ELSE /\ output' = Append(output, "Error: not a valid directory")
            /\ pc' = "exit"
            /\ fileIdx' = fileIdx
    /\ UNCHANGED <<line, parsed, directory, clock, lineIdx, log_entries,
                   statistics, report, previous>>

\* parse_log_files, lines 36-40 and 46: the walk yields the next file, or
\* ends and log_entries is returned.
NextFile ==
    /\ pc = "walk"
    /\ IF fileIdx > Len(directory.files)
       THEN pc' = "parsed" /\ fileIdx' = fileIdx
       ELSE LET file == directory.files[fileIdx]
            IN  IF ~IsLogFile(file.name)
                THEN pc' = "walk" /\ fileIdx' = fileIdx + 1
                ELSE IF ~file.readable
                THEN pc' = "crashed" /\ fileIdx' = fileIdx
                ELSE pc' = "read" /\ fileIdx' = fileIdx
    /\ lineIdx' = 0
    /\ UNCHANGED <<line, parsed, directory, clock, log_entries, statistics,
                   report, output, previous>>

\* parse_log_files, lines 41-44: one line of the open file.
ReadLine ==
    /\ pc = "read"
    /\ lineIdx < Len(directory.files[fileIdx].lines)
    /\ line' = Strip(directory.files[fileIdx].lines[lineIdx + 1])
    /\ parsed' = parse_log_line(line')
    /\ log_entries' = IF parsed' # None THEN Append(log_entries, parsed') ELSE log_entries
    /\ lineIdx' = lineIdx + 1
    /\ UNCHANGED <<pc, directory, clock, fileIdx, statistics, report, output, previous>>

\* parse_log_files, lines 40-41: the file is exhausted and closed.
CloseFile ==
    /\ pc = "read"
    /\ lineIdx = Len(directory.files[fileIdx].lines)
    /\ fileIdx' = fileIdx + 1
    /\ pc' = "walk"
    /\ UNCHANGED <<line, parsed, directory, clock, lineIdx, log_entries,
                   statistics, report, output, previous>>

\* main, lines 213 and 219-220: if log_entries: ... else: print(...)
CheckEntries ==
    /\ pc = "parsed"
    /\ IF Len(log_entries) > 0
       THEN pc' = "aggregate" /\ output' = output
       ELSE pc' = "exit" /\ output' = Append(output, "No valid log data found")
    /\ UNCHANGED <<line, parsed, directory, clock, fileIdx, lineIdx, log_entries,
                   statistics, report, previous>>

\* generate_html_report, lines 99-195: the report is written and announced.
GenerateHtmlReport ==
    /\ pc = "render"
    /\ report' = statistics
    /\ output' = Append(output, "HTML report generated")
    /\ pc' = "exit"
    /\ UNCHANGED <<line, parsed, directory, clock, fileIdx, lineIdx, log_entries,
                   statistics, previous>>

\* The program is started again, later, on the same directory; report.html
\* is still there.
RunAgain ==
    /\ pc = "exit"
    /\ clock < Len(Clocks)
    /\ \E later \in (clock + 1)..Len(Clocks) : clock' = later
    /\ previous' = IF statistics = None THEN None
                   ELSE [clock |-> clock, statistics |-> statistics]
    /\ pc' = "start"
    /\ line' = ""
    /\ parsed' = None
    /\ fileIdx' = 0
    /\ lineIdx' = 0
    /\ log_entries' = <<>>
    /\ statistics' = None
    /\ output' = <<>>
    /\ UNCHANGED <<directory, report>>

Next ==
    \/ CheckDirectory
    \/ NextFile
    \/ ReadLine
    \/ CloseFile
    \/ CheckEntries
    \/ GenerateStatistics
    \/ GenerateHtmlReport
    \/ RunAgain

Spec == Init /\ [][Next]_vars

----------------------------------------------------------------------------
(* The claims about main and parse_log_files, under Spec.                  *)

ReportWritten == \E i \in 1..Len(output) : output[i] = "HTML report generated"

RunEnded == pc \in {"exit", "crashed"}

NoLineParses ==
    \A i \in 1..Len(directory.files) :
        IsLogFile(directory.files[i].name) =>
            \A j \in 1..Len(directory.files[i].lines) :
                parse_log_line(Strip(directory.files[i].lines[j])) = None

\* C1: a run writes the report only if the directory exists and
\* parse_log_files returned an entry; and when the directory does not exist
\* or no line of any .log file parses, the run prints its message and ends
\* normally, generate_statistics and generate_html_report never called.
C1_ReportOnlyFromEntries ==
    /\ ReportWritten => directory.exists /\ Len(log_entries) > 0
    /\ RunEnded /\ (~directory.exists \/ NoLineParses) =>
          /\ pc = "exit"
          /\ Len(output) > 0
          /\ output[Len(output)] \in {"Error: not a valid directory",
                                      "No valid log data found"}
          /\ statistics = None
          /\ ~ReportWritten

\* What each line of FileLines holds, read by eye.
EntriesOfLine(text) ==
    IF text = RecentLine THEN <<Entry("R2", InJanuary, "GET /y.html")>>
    ELSE IF text = BoundaryLine THEN <<Entry("R1", JustAfter, "GET /x.html")>>
    ELSE <<>>

RECURSIVE EntriesOfLines(_)
EntriesOfLines(lines) ==
    IF Len(lines) = 0 THEN <<>>
    ELSE EntriesOfLine(lines[1]) \o EntriesOfLines(Tail(lines))

RECURSIVE EntriesOfFiles(_)
EntriesOfFiles(files) ==
    IF Len(files) = 0 THEN <<>>
    ELSE (IF files[1].name \in {"a.log", "B.LOG", "c.log", "d.log\n"}
          THEN EntriesOfLines(files[1].lines) ELSE <<>>)
             \o EntriesOfFiles(Tail(files))

RECURSIVE RawEntriesOfLines(_)
RawEntriesOfLines(lines) ==
    IF Len(lines) = 0 THEN <<>>
    ELSE (IF parse_log_line(lines[1]) = None THEN <<>> ELSE <<parse_log_line(lines[1])>>)
             \o RawEntriesOfLines(Tail(lines))

RECURSIVE RawEntriesOfFiles(_)
RawEntriesOfFiles(files) ==
    IF Len(files) = 0 THEN <<>>
    ELSE (IF EndsWith(Lower(files[1].name), ".log")
          THEN RawEntriesOfLines(files[1].lines) ELSE <<>>)
             \o RawEntriesOfFiles(Tail(files))

InsideWindow(date, now) ==
    TupleGreater(
        <<ToOrdinal(date.year, date.month, date.day) + 1680,
          date.hour * 3600 + date.minute * 60 + date.second, date.microsecond>>,
        <<ToOrdinal(now.year, now.month, now.day),
          now.hour * 3600 + now.minute * 60 + now.second, now.microsecond>>)

BothRunsAggregated == previous # None /\ statistics # None

SameWindow ==
    \A i \in 1..Len(log_entries) :
        InsideWindow(log_entries[i].date, Clocks[previous.clock])
            <=> InsideWindow(log_entries[i].date, Clocks[clock])

\* C4, as claimed: two runs on an unchanged directory, at any two times,
\* give statistics equal in every field but last_update.
C4_EqualButLastUpdate ==
    BothRunsAggregated =>
        /\ statistics.top_50_routers = previous.statistics.top_50_routers
        /\ statistics.total_html_requests = previous.statistics.total_html_requests
        /\ statistics.top_50_pages = previous.statistics.top_50_pages
        /\ statistics.most_popular_time = previous.statistics.most_popular_time
        /\ statistics.monthly_requests = previous.statistics.monthly_requests
        /\ statistics.average_page_loads_per_month
              = previous.statistics.average_page_loads_per_month

\* C4, as amended: the two runs agree on top_50_routers, total_html_requests,
\* top_50_pages and most_popular_time at any two times, and on
\* monthly_requests and average_page_loads_per_month when the same entries
\* are inside the 1680-day window at both times.
C4_EqualWhileWindowKeepsEntries ==
    BothRunsAggregated =>
        /\ statistics.top_50_routers = previous.statistics.top_50_routers
        /\ statistics.total_html_requests = previous.statistics.total_html_requests
        /\ statistics.top_50_pages = previous.statistics.top_50_pages
        /\ statistics.most_popular_time = previous.statistics.most_popular_time
        /\ SameWindow =>
              /\ statistics.monthly_requests = previous.statistics.monthly_requests
              /\ statistics.average_page_loads_per_month
                    = previous.statistics.average_page_loads_per_month

C4_Witness ==
    /\ BothRunsAggregated
    /\ SameWindow
    /\ Len(statistics.monthly_requests) > 0
    /\ statistics.last_update # previous.statistics.last_update

----------------------------------------------------------------------------
(* The claims about parse_log_line, under SpecParse.                       *)

\* The date texts of the catalogue that name a date and a time.
Timestamps ==
    { [text |-> "01/Jan/2024:10:00:00", date |-> DateTime(2024, 1, 1, 10, 0, 0, 0)],
      [text |-> "1/jan/2024:1:2:3", date |-> DateTime(2024, 1, 1, 1, 2, 3, 0)],
      [text |-> "29/Feb/2024:23:59:59", date |-> DateTime(2024, 2, 29, 23, 59, 59, 0)] }

\* The text between the "[" that follows the router separator and the next
\* " +" (the rest of the line without one).
TimestampText(l) ==
    LET at == Find(l, RouterSep, 1)
        rest == SubSeq(l, at + Len(RouterSep), Len(l))
        plus == Find(rest, " +", 1)
    IN  IF plus = 0 THEN rest ELSE SubSeq(rest, 1, plus - 1)

\* C2: a line that violates the format yields no entry: one without the
\* separator " -  -  [", one without "[", one with fewer than two
\* quote-delimited segments, one without a quote followed by a space, one
\* whose timestamp text is not a date and time.
C2_MalformedLineYieldsNoEntry ==
    pc = "parsed" =>
        /\ Find(line, RouterSep, 1) = 0 => parsed = None
        /\ Find(line, "[", 1) = 0 => parsed = None
        /\ Find(line, "\"", 1) = 0 => parsed = None
        /\ Find(line, "\" ", 1) = 0 => parsed = None
        /\ /\ Find(line, RouterSep, 1) # 0
           /\ \A t \in Timestamps : t.text # TimestampText(line)
           => parsed = None

\* The requests of the catalogue without a double quote inside.
PlainRequests == {"GET /x.html", " GET /x", ""}

\* C3: a line of the form
\*    <router> -  -  [<DD/Mon/YYYY:HH:MM:SS> +<tz>] "<request>" <status> -...
\* for any router token and any request without an embedded double quote,
\* yields the entry holding that router, that date and time, that request
\* and that status.
C3_WellFormedLineYieldsItsFields ==
    pc = "parsed" =>
        \A r \in Routers, t \in Timestamps, q \in PlainRequests,
           rest \in {"", " 1234 \"-\""} :
            line = r \o RouterSep \o t.text \o " +0000] \"" \o q \o "\" 200 -" \o rest
                => parsed = [router |-> r, date |-> t.date, request |-> q,
                             status_code |-> "200"]

----------------------------------------------------------------------------
(* The claims about generate_statistics, under SpecStats.                  *)

Aggregated == pc = "render"

\* The positions of the entries inside the window at the time read.
Inside ==
    {i \in 1..Len(log_entries) : InsideWindow(log_entries[i].date, Clocks[clock])}

\* The year and the month a key "YYYY-MM" names.
KeyYear(key) == ToInt(SubSeq(key, 1, Len(key) - 3))
KeyMonth(key) == ToInt(SubSeq(key, Len(key) - 1, Len(key)))

HasKey(i, key) ==
    /\ log_entries[i].date.year = KeyYear(key)
    /\ log_entries[i].date.month = KeyMonth(key)

\* C5: the monthly rollup counts an entry under its YYYY-MM key if and only
\* if its timestamp is strictly after the current time minus 56 * 30 days
\* (one second before the boundary and on it: left out; one second after:
\* counted); each counted entry adds 1 to one key; the pairs come in strictly
\* ascending key order.
C5_MonthlyRollup ==
    Aggregated =>
        LET monthly == statistics.monthly_requests
        IN  /\ \A k \in 1..Len(monthly) :
                  /\ Len(monthly[k][1]) = 7
                  /\ CharAt(monthly[k][1], 5) = "-"
                  /\ monthly[k][2] = Cardinality({i \in Inside : HasKey(i, monthly[k][1])})
                  /\ monthly[k][2] >= 1
            /\ \A i \in Inside :
                  Cardinality({k \in 1..Len(monthly) : HasKey(i, monthly[k][1])}) = 1
            /\ SumCounts(monthly) = Cardinality(Inside)
            /\ \A k \in 1..(Len(monthly) - 1) : StrLess(monthly[k][1], monthly[k + 1][1])
            /\ clock = 1 =>
                  \A i \in 1..Len(log_entries) :
                      /\ log_entries[i].date \in {JustBefore, OnBoundary} => i \notin Inside
                      /\ log_entries[i].date = JustAfter => i \in Inside

C5_Witness ==
    /\ Aggregated
    /\ clock = 1
    /\ \A d \in {JustBefore, OnBoundary, JustAfter} :
          \E i \in 1..Len(log_entries) : log_entries[i].date = d
    /\ statistics.monthly_requests = <<<<"2019-11", 1>>>>

\* How often a router, a request, an hour occurs among the entries, and
\* where it occurs first.
RouterCount(r) == Cardinality({i \in 1..Len(log_entries) : log_entries[i].router = r})
RequestCount(q) == Cardinality({i \in 1..Len(log_entries) : log_entries[i].request = q})
HourCount(h) == Cardinality({i \in 1..Len(log_entries) : log_entries[i].date.hour = h})

FirstRouter(r) ==
    CHOOSE i \in 1..Len(log_entries) :
        /\ log_entries[i].router = r
        /\ \A j \in 1..(i - 1) : log_entries[j].router # r

FirstHour(h) ==
    CHOOSE i \in 1..Len(log_entries) :
        /\ log_entries[i].date.hour = h
        /\ \A j \in 1..(i - 1) : log_entries[j].date.hour # h

Listed1(top) == {top[i][1] : i \in 1..Len(top)}

\* C6: top_50_routers never holds "127.0.0.1"; it holds at most 50 pairs of
\* distinct routers, each with its exact number of entries, in
\* non-increasing count order; no router left out has more entries than a
\* listed one; routers of equal count stand in the order of their first
\* entries.
C6_TopRouters ==
    Aggregated =>
        LET top == statistics.top_50_routers
        IN  /\ \A i \in 1..Len(top) : top[i][1] # "127.0.0.1"
            /\ Len(top) <= 50
            /\ \A i, j \in 1..Len(top) : i # j => top[i][1] # top[j][1]
            /\ \A i \in 1..Len(top) : top[i][2] = RouterCount(top[i][1]) /\ top[i][2] >= 1
            /\ \A i \in 1..(Len(top) - 1) : top[i][2] >= top[i + 1][2]
            /\ \A k \in 1..Len(log_entries) :
                  LET r == log_entries[k].router
                  IN  r # "127.0.0.1" /\ r \notin Listed1(top) =>
                          /\ Len(top) = 50
                          /\ \A i \in 1..Len(top) : RouterCount(r) <= top[i][2]
            /\ \A i, j \in 1..Len(top) :
                  i < j /\ top[i][2] = top[j][2] =>
                      FirstRouter(top[i][1]) < FirstRouter(top[j][1])

C6_Witness ==
    /\ Aggregated
    /\ RouterCount("127.0.0.1") = 3
    /\ Len(statistics.top_50_routers) = 50
    /\ statistics.top_50_routers[1] = <<"r51", 2>>
    /\ statistics.top_50_routers[2] = <<"r1", 1>>
    /\ RouterCount("r50") = 1

LeftOut(q) ==
    \/ Len(q) >= 4 /\ SubSeq(q, Len(q) - 3, Len(q)) \in {".png", ".ico", ".css"}
    \/ q \in {"GET /", "GET /styles.css", "GET /favicon.png", "HEAD /"}

\* C7: top_50_pages never holds a request ending in .png, .ico or .css, nor
\* "GET /", "GET /styles.css", "GET /favicon.png", "HEAD /"; every other
\* request is counted by equality of the whole string; the result is at
\* most 50 pairs in non-increasing count order.
C7_TopPages ==
    Aggregated =>
        LET top == statistics.top_50_pages
        IN  /\ \A i \in 1..Len(top) : ~LeftOut(top[i][1])
            /\ Len(top) <= 50
            /\ \A i, j \in 1..Len(top) : i # j => top[i][1] # top[j][1]
            /\ \A i \in 1..Len(top) : top[i][2] = RequestCount(top[i][1]) /\ top[i][2] >= 1
            /\ \A i \in 1..(Len(top) - 1) : top[i][2] >= top[i + 1][2]
            /\ \A k \in 1..Len(log_entries) :
                  LET q == log_entries[k].request
                  IN  ~LeftOut(q) /\ q \notin Listed1(top) =>
                          /\ Len(top) = 50
                          /\ \A i \in 1..Len(top) : RequestCount(q) <= top[i][2]

C7_Witness ==
    /\ Aggregated
    /\ RequestCount("GET /favicon.png") = 12
    /\ statistics.top_50_pages = <<<<"GET /index.html", 10>>, <<"GET /about.html", 5>>>>

\* C9: most_popular_time is taken from the hour of every entry, inside the
\* window or not: an hour with the most entries, and among such hours the
\* one whose first entry comes earliest; none for no entries.
C9_PopularHour ==
    Aggregated =>
        LET hour == statistics.most_popular_time
        IN  IF Len(log_entries) = 0 THEN hour = NoHour
            ELSE /\ hour \in 0..23
                 /\ HourCount(hour) >= 1
                 /\ \A h \in 0..23 : HourCount(h) <= HourCount(hour)
                 /\ \A h \in 0..23 :
                       h # hour /\ HourCount(h) = HourCount(hour) =>
                           FirstHour(hour) < FirstHour(h)

C9_Witness ==
    /\ Aggregated
    /\ statistics.most_popular_time = 13
    /\ HourCount(13) = HourCount(11)
    /\ \A i \in 1..Len(log_entries) : i \notin Inside

\* The months that hold an entry inside the window.
MonthsInside ==
    { <<log_entries[i].date.year, log_entries[i].date.month>> : i \in Inside }

\* C10: average_page_loads_per_month is the number of entries inside the
\* window divided by the number of distinct months they fall in, and 0 when
\* no entry is inside the window.
C10_AveragePerMonth ==
    Aggregated =>
        LET average == statistics.average_page_loads_per_month
        IN  IF MonthsInside = {} THEN average.num = 0 /\ average.den = 1
            ELSE /\ average.den >= 1
                 /\ average.num * Cardinality(MonthsInside)
                       = Cardinality(Inside) * average.den

C10_Witness ==
    /\ Aggregated
    /\ statistics.monthly_requests = <<<<"2024-01", 10>>, <<"2024-02", 20>>>>
    /\ statistics.average_page_loads_per_month = [num |-> 15, den |-> 1]

====
